---- MODULE Spec2Model ----
(***************************************************************************)
(* Model of the vSphere cloud-account resource of the vRA Terraform        *)
(* provider (vra/resource_cloud_account_vsphere.go): the resource data `d` *)
(* the handlers work on, the remote cloud-account store, and the five      *)
(* lifecycle operations Create, Read, Update, Delete and Import.           *)
(***************************************************************************)
EXTENDS Integers, Sequences, FiniteSets, TLC

\* ------------------------------------------------------------------ bounds
\* Highest id the remote system hands out (ids are 1..MaxId).
MaxId == 1
\* Longest declared list of regions / associated account ids in a configuration.
MaxLen == 2

\* --------------------------------------------------------------- universes
Regions == {"r1", "r2"}
Accounts == {"a1"}
Variants == {"v1", "v2"}
\* d.SetId("") : the empty id.
EmptyId == 0
Ids == 1..MaxId
None == [absent |-> TRUE]

\* d, remote, nextId, op: the resource data, the remote store, the next id the
\* remote assigns, the step just taken. lifecycle: the state of the record in
\* the reconciler's state machine. reads: how many Reads in a row (at most 2
\* counted) found the remote object and returned no error. normalizer: the inputs
\* and outputs of the region-order normalizer taken on its own.
VARIABLES d, remote, nextId, op, lifecycle, reads, normalizer
vars == <<d, remote, nextId, op, lifecycle, reads, normalizer>>

\* ----------------------------------------------------------------- helpers
Range(s) == {s[i] : i \in DOMAIN s}
SeqsUpTo(S, n) == UNION {[1..k -> S] : k \in 0..n}
Perms(S) == {s \in [1..Cardinality(S) -> S] : Range(s) = S}

\* The key a set-typed attribute files a string under: the decimal digits of
\* its hash code (CRC-32 of the string).
HashKey ==
  [r1 |-> <<2,1,9,0,2,3,7,9,3>>, r2 |-> <<2,4,8,3,5,0,9,2,5,9>>,
   a1 |-> <<1,8,2,6,7,0,3,3,9,5>>]
\* Keys compare as strings do.
RECURSIVE KeyLess(_, _)
KeyLess(a, b) ==
  IF b = <<>> THEN FALSE
  ELSE IF a = <<>> THEN TRUE
  ELSE IF Head(a) # Head(b) THEN Head(a) < Head(b)
  ELSE KeyLess(Tail(a), Tail(b))
\* All values in the order of their keys.
HashOrder ==
  CHOOSE s \in Perms(DOMAIN HashKey) :
    \A i, j \in DOMAIN s : i < j => KeyLess(HashKey[s[i]], HashKey[s[j]])
\* schema.Set.List(): the members of a set-typed attribute, listed in the
\* order of their keys, whatever order they were given in.
SetList(S) == SelectSeq(HashOrder, LAMBDA x : x \in S)
\* Reading a list into a set-typed attribute keeps one copy of each value.
ToSet(s) == Range(s)

\* compareUnique: TRUE iff no value repeats in the list.
compareUnique(s) == \A i, j \in DOMAIN s : i # j => s[i] # s[j]
\* expandStringList: []interface{} -> []string, element by element.
expandStringList(s) == [i \in DOMAIN s |-> s[i]]

\* Tags: schema form {key, value} and API form {Key, Value}.
expandTags(ts) == {[Key |-> t.key, Value |-> t.value] : t \in ts}
flattenTags(ts) == {[key |-> t.Key, value |-> t.Value] : t \in ts}
TagsOf(v) == {[key |-> "env", value |-> v]}


\* ------------------------------------------------------------ remote store
RegionPrefix == "/iaas/api/regions/"
AccountPrefix == "/iaas/api/cloud-accounts/"
Href(prefix, x) == [prefix |-> prefix, id |-> x]
\* A link that cannot be parsed into an identifier.
MalformedHref == [prefix |-> "?", id |-> "?"]

\* The object the remote system stores for a create request with this body.
NewAccount(id, body) ==
  [id               |-> id,
   hostName         |-> body.HostName,
   name             |-> body.Name,
   password         |-> body.Password,
   username         |-> body.Username,
   acceptSelfSigned |-> body.AcceptSelfSignedCertificate,
   dcid             |-> body.Dcid,
   description      |-> body.Description,
   tags             |-> body.Tags,
   enabledRegionIds |-> Range(body.RegionIds),
   associatedIds    |-> Range(body.AssociatedCloudAccountIds),
   createdAt        |-> "t0",
   updatedAt        |-> "t0",
   orgID            |-> "org",
   owner            |-> "owner",
   customProperties |-> "props"]

\* The object after an update request with this body (the remote's clock is
\* not modelled: the timestamps stay as they are).
UpdatedAccount(obj, body) ==
  LET Sent(f) == f \in DOMAIN body IN
  [obj EXCEPT
     !.hostName = IF Sent("HostName") THEN body.HostName ELSE @,
     !.name = IF Sent("Name") THEN body.Name ELSE @,
     !.password = IF Sent("Password") THEN body.Password ELSE @,
     !.username = IF Sent("Username") THEN body.Username ELSE @,
     !.acceptSelfSigned = IF Sent("AcceptSelfSignedCertificate")
                          THEN body.AcceptSelfSignedCertificate ELSE @,
     !.dcid = IF Sent("Dcid") THEN body.Dcid ELSE @,
     !.associatedIds = IF Sent("AssociatedCloudAccountIds")
                       THEN Range(body.AssociatedCloudAccountIds) ELSE @,
     !.description = IF Sent("Description") THEN body.Description ELSE @,
     !.enabledRegionIds = IF Sent("RegionIds") THEN Range(body.RegionIds) ELSE @,
     !.tags = IF Sent("Tags") THEN body.Tags ELSE @]

\* models.CloudAccountVsphere as the remote returns it: the enabled regions
\* and, parallel to them, their links, in the order regOrder; bad = the first
\* region link is one that cannot be parsed.
Payload(obj, regOrder, bad) ==
  [ID               |-> obj.id,
   HostName         |-> obj.hostName,
   Name             |-> obj.name,
   Username         |-> obj.username,
   Dcid             |-> obj.dcid,
   Description      |-> obj.description,
   Tags             |-> obj.tags,
   EnabledRegionIds |-> regOrder,
   CreatedAt        |-> obj.createdAt,
   UpdatedAt        |-> obj.updatedAt,
   OrgID            |-> obj.orgID,
   Owner            |-> obj.owner,
   CustomProperties |-> obj.customProperties,
   Links            |->
     [regions  |-> [i \in DOMAIN regOrder |->
                      IF bad /\ i = 1 THEN MalformedHref
                      ELSE Href(RegionPrefix, regOrder[i])],
      accounts |-> {Href(AccountPrefix, a) : a \in obj.associatedIds}]]

NoPayload == [none |-> TRUE]

\* ---------------------------------------------------- field-mapping helpers
\* A link parses into an identifier when it carries the expected path prefix.
WellFormed(h, prefix) == h.prefix = prefix
ParseHref(h) == h.id

\* flattenAssociatedCloudAccountIds: the ids the account links refer to.
flattenAssociatedCloudAccountIds(links) ==
  {ParseHref(h) : h \in {x \in links.accounts : WellFormed(x, AccountPrefix)}}

\* flattenLinks: the link collection as (relation, target) entries.
flattenLinks(links) ==
  {[rel |-> "regions", href |-> links.regions[i]] : i \in DOMAIN links.regions}
  \cup {[rel |-> "associated-cloud-accounts", href |-> h] : h \in links.accounts}

\* Walk the declared order, emitting the identifiers found in the lookup and
\* removing them from it.
EmitDeclaredSorted(order, lookup) ==
  SelectSeq(<<"r1", "r2", "r3", "r4">>, LAMBDA x : x \in lookup \cap Range(order))
RECURSIVE EmitDeclared(_, _)
EmitDeclared(order, lookup) ==
  IF order = <<>> THEN <<>>
  ELSE IF Head(order) \in lookup
       THEN <<Head(order)>> \o EmitDeclared(Tail(order), lookup \ {Head(order)})
       ELSE EmitDeclared(Tail(order), lookup)

\* The identifiers left in the lookup, in the remote response's own order.
EmitRemainingNone(ids, lookup) == <<>>
RECURSIVE EmitRemaining(_, _)
EmitRemaining(ids, lookup) ==
  IF ids = <<>> THEN <<>>
  ELSE IF Head(ids) \in lookup
       THEN <<Head(ids)>> \o EmitRemaining(Tail(ids), lookup \ {Head(ids)})
       ELSE EmitRemaining(Tail(ids), lookup)

NormalizeReversesRest(declaredOrder, ids) ==
  LET rest == EmitRemaining(ids, Range(ids) \ Range(declaredOrder)) IN
  EmitDeclared(declaredOrder, Range(ids))
  \o [i \in DOMAIN rest |-> rest[Len(rest) + 1 - i]]
Normalize(declaredOrder, ids) ==
  EmitDeclared(declaredOrder, Range(ids))
  \o EmitRemaining(ids, Range(ids) \ Range(declaredOrder))

\* flattenAndNormalizeCloudAccountVsphereRegionIds(regionOrder, account):
\* fails when a region link cannot be parsed, else the region ids of the
\* links ordered by regionOrder.
flattenAndNormalizeCloudAccountVsphereRegionIds(regionOrder, account) ==
  LET hrefs == account.Links.regions IN
  IF \E i \in DOMAIN hrefs : ~WellFormed(hrefs[i], RegionPrefix)
  THEN [err |-> TRUE, ids |-> <<>>]
  ELSE [err |-> FALSE,
        ids |-> Normalize(regionOrder, [i \in DOMAIN hrefs |-> ParseHref(hrefs[i])])]

\* ----------------------------------------------------------- resource data
\* A configuration the user declares: regions and associated account ids as
\* written (order kept, repetitions possible), the scalar attributes from v.
RegionLists == SeqsUpTo(Regions, MaxLen) \ {<<>>}
AccountLists == SeqsUpTo(Accounts, MaxLen) \ {<<>>}
Configs == [regions : RegionLists, assoc : AccountLists, v : Variants]
\* A Create declares the scalar attributes of the first variant; an Update
\* may declare either.
CreateConfigs == {c \in Configs : c.v = "v1"}

\* The resource data of a record that holds nothing yet.
EmptyData ==
  [id |-> EmptyId, hostname |-> "", name |-> "", password |-> "",
   username |-> "", accept_self_signed_cert |-> FALSE,
   associated_cloud_account_ids |-> {}, dcid |-> "", description |-> "",
   tags |-> {}, regions |-> {}, region_ids |-> {}, created_at |-> "",
   custom_properties |-> "", links |-> {}, org_id |-> "", owner |-> "",
   updated_at |-> ""]

\* The user-declared attributes of cfg written over the resource data dd
\* (regions and associated_cloud_account_ids are set-typed attributes).
WithConfig(dd, cfg) ==
  [dd EXCEPT !.hostname = cfg.v, !.name = cfg.v, !.password = cfg.v,
             !.username = cfg.v, !.accept_self_signed_cert = (cfg.v = "v2"),
             !.associated_cloud_account_ids = ToSet(cfg.assoc),
             !.dcid = cfg.v, !.description = cfg.v, !.tags = TagsOf(cfg.v),
             !.regions = ToSet(cfg.regions)]

\* The resource data of a Create of cfg.
NewData(cfg) == WithConfig(EmptyData, cfg)
\* The resource data a Create can start from, and for each the
\* configurations that give it (lists that differ in order or repetition
\* give the same set-typed attribute).
NewDatas == {NewData(c) : c \in CreateConfigs}
ConfigsOf == [dd \in NewDatas |-> {c \in CreateConfigs : NewData(c) = dd}]
\* The configurations of an Update: one per value of the set-typed
\* attributes, written in listing order (an Update sees its lists only as
\* the sets they denote).
UpdateConfigs ==
  {c \in Configs : /\ c.regions = SetList(ToSet(c.regions))
                   /\ c.assoc = SetList(ToSet(c.assoc))}

\* The attributes a user declares.
UserDeclared(dd) ==
  [regions |-> dd.regions, hostname |-> dd.hostname, username |-> dd.username,
   password |-> dd.password, description |-> dd.description, dcid |-> dd.dcid,
   accept_self_signed_cert |-> dd.accept_self_signed_cert]

\* ------------------------------------------------------------- environment
\* What the environment decides during one get-by-id request and the Read
\* that issues it: whether the request fails, the order in which the remote
\* lists the enabled regions and their links, and whether a region link is
\* malformed. (d.Set is given values of the attribute's own type, for which
\* it returns no error: lines 154-156, 191-193 and 203-205 are not taken.)
DefaultOrd == CHOOSE p \in Perms(Regions) : TRUE
ReadEnvs ==
  [fail : BOOLEAN, regOrd : Perms(Regions), bad : BOOLEAN]
DefaultReadEnv ==
  [fail |-> FALSE, regOrd |-> DefaultOrd, bad |-> FALSE]

\* The members of S in the order ord lists them.
InOrder(ord, S) == SelectSeq(ord, LAMBDA x : x \in S)

\* apiClient.CloudAccount.GetVSphereCloudAccount(id)
GetVSphereCloudAccount(rem, id, env) ==
  IF env.fail THEN [kind |-> "error", payload |-> NoPayload]
  ELSE IF rem[id] = None THEN [kind |-> "notfound", payload |-> NoPayload]
  ELSE [kind |-> "ok",
        payload |-> Payload(rem[id], InOrder(env.regOrd, rem[id].enabledRegionIds),
                            env.bad)]

\* ---------------------------------------------------------------- handlers
\* resourceCloudAccountVsphereRead on the resource data dd.
\* Read, the get request answered not-found (lines 169-171).
ReadNotFoundKeepsId(dd) == [d |-> dd, diag |-> "ok", err |-> "notfound"]
ReadNotFoundFails(dd) ==
  [d |-> [dd EXCEPT !.id = EmptyId], diag |-> "error", err |-> "notfound"]
ReadNotFound(dd) ==
  [d |-> [dd EXCEPT !.id = EmptyId], diag |-> "ok", err |-> "notfound"]

\* Read, the get request failed otherwise (line 173).
ReadFailedClearsId(dd) ==
  [d |-> [dd EXCEPT !.id = EmptyId], diag |-> "error", err |-> "remote"]
ReadFailedSwallowed(dd) == [d |-> dd, diag |-> "ok", err |-> "remote"]
ReadFailed(dd) == [d |-> dd, diag |-> "error", err |-> "remote"]

\* Read, the attributes set from the account the remote returned
\* (lines 176-189).
RefreshKeepsHostname(dd, vsphereAccount) ==
  [dd EXCEPT
     !.associated_cloud_account_ids =
         flattenAssociatedCloudAccountIds(vsphereAccount.Links),
     !.created_at = vsphereAccount.CreatedAt,
     !.custom_properties = vsphereAccount.CustomProperties,
     !.dcid = vsphereAccount.Dcid,
     !.description = vsphereAccount.Description,
     !.name = vsphereAccount.Name,
     !.org_id = vsphereAccount.OrgID,
     !.owner = vsphereAccount.Owner,
     !.regions = ToSet(vsphereAccount.EnabledRegionIds),
     !.updated_at = vsphereAccount.UpdatedAt,
     !.username = vsphereAccount.Username]
RefreshKeepsRegionOrder(dd, vsphereAccount) ==
  [dd EXCEPT
     !.associated_cloud_account_ids =
         flattenAssociatedCloudAccountIds(vsphereAccount.Links),
     !.created_at = vsphereAccount.CreatedAt,
     !.custom_properties = vsphereAccount.CustomProperties,
     !.dcid = vsphereAccount.Dcid,
     !.description = vsphereAccount.Description,
     !.hostname = vsphereAccount.HostName,
     !.name = vsphereAccount.Name,
     !.org_id = vsphereAccount.OrgID,
     !.owner = vsphereAccount.Owner,
     !.regions = vsphereAccount.EnabledRegionIds,
     !.updated_at = vsphereAccount.UpdatedAt,
     !.username = vsphereAccount.Username]
Refresh(dd, vsphereAccount) ==
  [dd EXCEPT
     !.associated_cloud_account_ids =
         flattenAssociatedCloudAccountIds(vsphereAccount.Links),
     !.created_at = vsphereAccount.CreatedAt,
     !.custom_properties = vsphereAccount.CustomProperties,
     !.dcid = vsphereAccount.Dcid,
     !.description = vsphereAccount.Description,
     !.hostname = vsphereAccount.HostName,
     !.name = vsphereAccount.Name,
     !.org_id = vsphereAccount.OrgID,
     !.owner = vsphereAccount.Owner,
     !.regions = ToSet(vsphereAccount.EnabledRegionIds),
     !.updated_at = vsphereAccount.UpdatedAt,
     !.username = vsphereAccount.Username]

resourceCloudAccountVsphereRead(dd, rem, env) ==
  LET ret == GetVSphereCloudAccount(rem, dd.id, env) IN
  IF ret.kind = "notfound" THEN ReadNotFound(dd)
  ELSE IF ret.kind = "error" THEN ReadFailed(dd)
  ELSE
    LET vsphereAccount == ret.payload
        regions == vsphereAccount.EnabledRegionIds
        d1 == Refresh(dd, vsphereAccount)
        d2 == [d1 EXCEPT !.links = flattenLinks(vsphereAccount.Links)]
        norm == flattenAndNormalizeCloudAccountVsphereRegionIds(regions, vsphereAccount)
        d3 == [d2 EXCEPT !.region_ids = ToSet(norm.ids)]
        d4 == [d3 EXCEPT !.tags = flattenTags(vsphereAccount.Tags)]
    IN IF norm.err
       THEN [d |-> d2, diag |-> "error", err |-> "malformed"]
       ELSE [d |-> d4, diag |-> "ok", err |-> "none"]

\* What the environment decides during one Create.
CreateEnvs ==
  [fail : BOOLEAN, regOrd : Perms(Regions), bad : BOOLEAN, oob : BOOLEAN,
   read : ReadEnvs]

\* The body of the create request (models.CloudAccountVsphereSpecification).
CreateBody(dd, regions, associatedCloudAccountIds, tags) ==
  [AcceptSelfSignedCertificate |-> dd.accept_self_signed_cert,
   AssociatedCloudAccountIds   |-> associatedCloudAccountIds,
   Dcid        |-> dd.dcid,
   Description |-> dd.description,
   HostName    |-> dd.hostname,
   Name        |-> dd.name,
   Password    |-> dd.password,
   RegionIds   |-> regions,
   Tags        |-> tags,
   Username    |-> dd.username]

\* Create, the resource data when the normalizer fails on the create
\* response (lines 148-151): nothing has been set yet.
NormalizeFailedWithId(dd, createResp) == [dd EXCEPT !.id = createResp.ID]
NormalizeFailed(dd, createResp) == dd

\* resourceCloudAccountVsphereCreate on the resource data dd; nid is the id
\* the remote system assigns to the next object it creates.
resourceCloudAccountVsphereCreate(dd, rem, nid, env) ==
  LET tags == expandTags(dd.tags)
      regionsOk == dd.regions # {}
      assocOk == dd.associated_cloud_account_ids # {}
      regions == IF regionsOk THEN expandStringList(SetList(dd.regions)) ELSE <<>>
      associatedCloudAccountIds ==
        IF assocOk THEN expandStringList(SetList(dd.associated_cloud_account_ids))
        ELSE <<>>
      body == CreateBody(dd, regions, associatedCloudAccountIds, tags)
      rem1 == [rem EXCEPT ![nid] = NewAccount(nid, body)]
      createResp == Payload(rem1[nid], InOrder(env.regOrd, rem1[nid].enabledRegionIds),
                            env.bad)
      norm == flattenAndNormalizeCloudAccountVsphereRegionIds(regions, createResp)
      d1 == [dd EXCEPT !.region_ids = ToSet(norm.ids)]
      d2 == [d1 EXCEPT !.tags = flattenTags(tags), !.id = createResp.ID]
      \* the remote object may be deleted out of band before the Read
      rem2 == IF env.oob THEN [rem1 EXCEPT ![nid] = None] ELSE rem1
      rd == resourceCloudAccountVsphereRead(d2, rem2, env.read)
  IN
  IF regionsOk /\ ~compareUnique(SetList(dd.regions))
  THEN [d |-> dd, remote |-> rem, diag |-> "error", err |-> "validation",
        calls |-> <<>>, created |-> EmptyId]
  ELSE IF assocOk /\ ~compareUnique(SetList(dd.associated_cloud_account_ids))
  THEN [d |-> dd, remote |-> rem, diag |-> "error", err |-> "validation",
        calls |-> <<>>, created |-> EmptyId]
  ELSE IF env.fail
  THEN [d |-> dd, remote |-> rem, diag |-> "error", err |-> "remote",
        calls |-> <<"create">>, created |-> EmptyId]
  ELSE IF norm.err
  THEN [d |-> NormalizeFailed(dd, createResp), remote |-> rem1, diag |-> "error",
        err |-> "malformed", calls |-> <<"create">>, created |-> nid]
  ELSE [d |-> rd.d, remote |-> rem2, diag |-> rd.diag, err |-> rd.err,
        calls |-> <<"create", "get">>, created |-> nid]

\* What the environment decides during one Update.
UpdateEnvs == [fail : BOOLEAN, read : ReadEnvs]

\* The body of the update request (models.UpdateCloudAccountVsphereSpecification).
UpdateBodyWithHostName(dd, regions) ==
  [Description |-> dd.description,
   HostName    |-> dd.hostname,
   RegionIds   |-> regions,
   Tags        |-> expandTags(dd.tags)]
UpdateBody(dd, regions) ==
  [Description |-> dd.description,
   RegionIds   |-> regions,
   Tags        |-> expandTags(dd.tags)]

\* resourceCloudAccountVsphereUpdate on the resource data dd. The update
\* request fails when the environment makes it fail or the remote has no
\* object with this id.
resourceCloudAccountVsphereUpdate(dd, rem, env) ==
  LET id == dd.id
      regionsOk == dd.regions # {}
      regions == IF regionsOk THEN expandStringList(SetList(dd.regions)) ELSE <<>>
      rem1 == [rem EXCEPT ![id] = UpdatedAccount(rem[id], UpdateBody(dd, regions))]
      rd == resourceCloudAccountVsphereRead(dd, rem1, env.read)
  IN
  IF regionsOk /\ ~compareUnique(SetList(dd.regions))
  THEN [d |-> dd, remote |-> rem, diag |-> "error", err |-> "validation",
        calls |-> <<>>]
  ELSE IF env.fail \/ rem[id] = None
  THEN [d |-> dd, remote |-> rem, diag |-> "error", err |-> "remote",
        calls |-> <<"update">>]
  ELSE [d |-> rd.d, remote |-> rem1, diag |-> rd.diag, err |-> rd.err,
        calls |-> <<"update", "get">>]

\* resourceCloudAccountVsphereDelete on the resource data dd. The delete
\* request fails when the environment makes it fail or the remote has no
\* object with this id.
DeleteFailedClearsId(dd) == [dd EXCEPT !.id = EmptyId]
DeleteFailed(dd) == dd
DeleteSucceededKeepsId(dd) == dd
DeleteSucceeded(dd) == [dd EXCEPT !.id = EmptyId]
DeleteNotFoundIsSuccess(dd, rem, fail) ==
  LET id == dd.id IN
  IF fail
  THEN [d |-> DeleteFailed(dd), remote |-> rem, diag |-> "error",
        err |-> "remote", calls |-> <<"delete">>]
  ELSE [d |-> DeleteSucceeded(dd), remote |-> [rem EXCEPT ![id] = None],
        diag |-> "ok", err |-> "none", calls |-> <<"delete">>]
resourceCloudAccountVsphereDelete(dd, rem, fail) ==
  LET id == dd.id IN
  IF fail \/ rem[id] = None
  THEN [d |-> DeleteFailed(dd), remote |-> rem, diag |-> "error",
        err |-> "remote", calls |-> <<"delete">>]
  ELSE [d |-> DeleteSucceeded(dd), remote |-> [rem EXCEPT ![id] = None],
        diag |-> "ok", err |-> "none", calls |-> <<"delete">>]

\* schema.ImportStatePassthroughContext: the resource data of an import holds
\* the given id and nothing else; the Read that follows fills in the rest.
ImportStatePassthroughContext(id) == [EmptyData EXCEPT !.id = id]

\* ------------------------------------------------ environment choices tried
\* The choices that can make a difference: what the environment decides after
\* a failure that ends the operation is left at its default.
ReadChoices ==
  {[DefaultReadEnv EXCEPT !.fail = TRUE]}
  \cup {e \in ReadEnvs : ~e.fail}
DefaultCreateEnv ==
  [fail |-> FALSE, regOrd |-> DefaultOrd, bad |-> FALSE, oob |-> FALSE,
   read |-> DefaultReadEnv]
CreateChoices ==
  {[DefaultCreateEnv EXCEPT !.fail = TRUE]}
  \cup {[DefaultCreateEnv EXCEPT !.bad = TRUE, !.regOrd = ro] : ro \in Perms(Regions)}
  \cup {[DefaultCreateEnv EXCEPT !.regOrd = ro, !.read = r] :
          ro \in Perms(Regions), r \in ReadChoices}
  \cup {[DefaultCreateEnv EXCEPT !.oob = TRUE, !.read.fail = f] : f \in BOOLEAN}
UpdateChoices ==
  {[fail |-> TRUE, read |-> DefaultReadEnv]}
  \cup {[fail |-> FALSE, read |-> r] : r \in ReadChoices}

\* --------------------------------------------------------- the state machine
\* op describes the step just taken: the operation, what it returned (diag),
\* the kind of error or answer behind it (err), the remote requests it issued
\* (calls), the lists the configuration of a Create declared, and the id of
\* the remote object its create request made (EmptyId when it made none).
OpRecord(name, diag, err, calls, cfg, created) ==
  [name |-> name, diag |-> diag, err |-> err, calls |-> calls,
   declared |-> cfg.regions, declaredAssoc |-> cfg.assoc, created |-> created]
NoConfig == [regions |-> <<>>, assoc |-> <<>>, v |-> "v1"]

\* d.SetId(""): resource data whose id is empty when the handler returns
\* stands for no record; none of its attributes is kept.
Stored(dd) == IF dd.id = EmptyId THEN EmptyData ELSE dd

\* The lifecycle state after an operation, from the state before it and what
\* the operation returned: Present after a successful Create, Import or Read,
\* Absent after a successful Delete, a Read answered not-found or a failed
\* Create or Import, unchanged after any other failure.
AfterRead(prev, diag, err) ==
  IF err = "notfound" THEN "Absent"
  ELSE IF diag = "error" THEN prev
  ELSE "Present"
LifecycleAfter(prev, name, diag, err, calls) ==
  CASE name = "Create" -> IF diag = "ok" THEN "Present" ELSE "Absent"
    [] name = "Import" -> IF diag = "ok" /\ err = "none" THEN "Present" ELSE "Absent"
    [] name = "Read"   -> AfterRead(prev, diag, err)
    [] name = "Update" -> IF calls = <<"update", "get">>
                          THEN AfterRead(prev, diag, err) ELSE prev
    [] name = "Delete" -> IF diag = "ok" THEN "Absent" ELSE prev
    [] OTHER -> prev

\* The step just described by o was a Read that got the account and returned
\* no error.
Refreshed(o) == o.name = "Read" /\ o.diag = "ok" /\ o.err = "none"

\* What every step of the lifecycle does to lifecycle, reads and normalizer.
Track ==
  /\ lifecycle' = LifecycleAfter(lifecycle, op'.name, op'.diag, op'.err, op'.calls)
  /\ reads' = IF Refreshed(op') THEN (IF reads < 2 THEN reads + 1 ELSE 2) ELSE 0
  /\ UNCHANGED normalizer

NoNorm == [stage |-> "none"]

Init ==
  /\ d = EmptyData
  /\ remote = [i \in Ids |-> None]
  /\ nextId = 1
  /\ op = OpRecord("Init", "ok", "none", <<>>, NoConfig, EmptyId)
  /\ lifecycle = "Absent"
  /\ reads = 0
  /\ normalizer = NoNorm

\* Create: the record is absent; its resource data dd is that of one of the
\* configurations cfg.
Create(dd) ==
  /\ d.id = EmptyId
  /\ nextId <= MaxId
  /\ \E env \in CreateChoices :
       \E r \in {resourceCloudAccountVsphereCreate(dd, remote, nextId, env)} :
          /\ d' = Stored(r.d)
          /\ remote' = r.remote
          /\ nextId' = IF r.created # EmptyId THEN nextId + 1 ELSE nextId
          /\ \E cfg \in ConfigsOf[dd] :
               op' = OpRecord("Create", r.diag, r.err, r.calls, cfg, r.created)
  /\ Track

\* Read (refresh) of a present record.
Read ==
  /\ d.id # EmptyId
  /\ \E env \in ReadChoices :
       \E r \in {resourceCloudAccountVsphereRead(d, remote, env)} :
          /\ d' = Stored(r.d)
          /\ op' = OpRecord("Read", r.diag, r.err, <<"get">>, NoConfig, EmptyId)
  /\ UNCHANGED <<remote, nextId>>
  /\ Track

\* Update of a present record: its resource data carries the new configuration.
Update(cfg) ==
  /\ d.id # EmptyId
  /\ \E env \in UpdateChoices :
       \E r \in {resourceCloudAccountVsphereUpdate(WithConfig(d, cfg), remote, env)} :
          /\ d' = Stored(r.d)
          /\ remote' = r.remote
          /\ op' = OpRecord("Update", r.diag, r.err, r.calls, NoConfig, EmptyId)
  /\ UNCHANGED nextId
  /\ Track

Delete ==
  /\ d.id # EmptyId
  /\ \E fail \in BOOLEAN :
       \E r \in {resourceCloudAccountVsphereDelete(d, remote, fail)} :
          /\ d' = Stored(r.d)
          /\ remote' = r.remote
          /\ op' = OpRecord("Delete", r.diag, r.err, r.calls, NoConfig, EmptyId)
  /\ UNCHANGED nextId
  /\ Track

\* Import of the id given by the user: the passthrough importer, then Read.
Import(id) ==
  /\ d.id = EmptyId
  /\ \E env \in ReadChoices :
       \E r \in {resourceCloudAccountVsphereRead(ImportStatePassthroughContext(id),
                                                remote, env)} :
          /\ d' = Stored(r.d)
          /\ op' = OpRecord("Import", r.diag, r.err, <<"get">>, NoConfig, EmptyId)
  /\ UNCHANGED <<remote, nextId>>
  /\ Track

\* The remote object is deleted out of band.
OutOfBandDelete(id) ==
  /\ remote[id] # None
  /\ remote' = [remote EXCEPT ![id] = None]
  /\ op' = OpRecord("OutOfBandDelete", "ok", "none", <<>>, NoConfig, EmptyId)
  /\ UNCHANGED <<d, nextId>>
  /\ Track

\* The enabled regions of a remote object are changed out of band.
OutOfBandRegions(id, S) ==
  /\ remote[id] # None
  /\ remote[id].enabledRegionIds # S
  /\ remote' = [remote EXCEPT ![id].enabledRegionIds = S]
  /\ op' = OpRecord("OutOfBandRegions", "ok", "none", <<>>, NoConfig, EmptyId)
  /\ UNCHANGED <<d, nextId>>
  /\ Track

Next ==
  \/ \E dd \in NewDatas : Create(dd)
  \/ Read
  \/ \E cfg \in UpdateConfigs : Update(cfg)
  \/ Delete
  \/ \E id \in Ids : Import(id)
  \/ \E id \in Ids : OutOfBandDelete(id)
  \/ \E id \in Ids, S \in (SUBSET Regions) \ {{}} : OutOfBandRegions(id, S)

Spec == Init /\ [][Next]_vars

\* ------------------------------------------------------------------ claims
\* The step just taken was operation name.
Did(name) == op.name = name
\* A declared list repeats a value.
HasDup(s) == \E i, j \in DOMAIN s : i # j /\ s[i] = s[j]

\* C1: a Read whose get-by-id request answers not-found returns no error and
\* leaves the record absent, its id empty.
C1_ReadNotFoundClearsId ==
  (Did("Read") /\ op.err = "notfound") => (op.diag = "ok" /\ d.id = EmptyId)
C1_Witness == Did("Read") /\ op.err = "notfound" /\ d = EmptyData

\* C2: a Create whose declared regions or associated account ids repeat a
\* value returns a validation error, issues no request and leaves the id empty.
C2_DuplicatesRejected ==
  (Did("Create") /\ (HasDup(op.declared) \/ HasDup(op.declaredAssoc)))
    => (op.diag = "error" /\ op.err = "validation" /\ op.calls = <<>>
        /\ d.id = EmptyId)

C4_CreateSuccessIsPresent ==
  (Did("Create") /\ op.diag = "ok") => (d.id # EmptyId /\ d.id = op.created)

\* C5: after a successful Create of duplicate-free regions, region_ids lists
\* the regions in the order the user declared them.
C5_RegionIdsInDeclaredOrder ==
  (Did("Create") /\ op.diag = "ok" /\ d.id # EmptyId /\ ~HasDup(op.declared))
    => SetList(d.region_ids) = op.declared

ReadRefreshed == op'.name = "Read" /\ op'.diag = "ok" /\ op'.err = "none"

\* C7 (as stated): a successful Read leaves the user-declared attributes as
\* they were.
C7_ReadKeepsUserDeclared ==
  [][ReadRefreshed => UserDeclared(d') = UserDeclared(d)]_vars
\* C7 (amended): a successful Read leaves password and accept_self_signed_cert
\* as they were and sets regions, hostname, username, description and dcid to
\* the remote object's values.
C7_ReadOverwritesFromRemote ==
  [][ReadRefreshed =>
       /\ d'.password = d.password
       /\ d'.accept_self_signed_cert = d.accept_self_signed_cert
       /\ d'.regions = remote[d.id].enabledRegionIds
       /\ d'.hostname = remote[d.id].hostName
       /\ d'.username = remote[d.id].username
       /\ d'.description = remote[d.id].description
       /\ d'.dcid = remote[d.id].dcid]_vars
C7_Witness ==
  /\ Did("Read") /\ op.diag = "ok" /\ op.err = "none"
  /\ d.password # d.hostname

\* C8: a Read whose get-by-id request fails other than with not-found returns
\* the error and leaves the id and every attribute as they were.
C8_ReadFailureKeepsRecord ==
  [][(op'.name = "Read" /\ op'.err = "remote") => (op'.diag = "error" /\ d' = d)]_vars
C8_Witness == Did("Read") /\ op.err = "remote" /\ op.diag = "error" /\ d.id # EmptyId

\* C9: a Delete whose request fails returns the error and leaves the id and
\* every attribute as they were: the record stays present.
C9_DeleteFailureKeepsRecord ==
  [][(op'.name = "Delete" /\ op'.err = "remote")
       => (op'.diag = "error" /\ d' = d /\ d'.id # EmptyId)]_vars
C9_Witness == Did("Delete") /\ op.diag = "error" /\ d.id # EmptyId

\* C10: after a successful Delete the remote object of the record no longer
\* exists and the record's id is empty.
C10_DeleteRemovesRemoteAndId ==
  [][(op'.name = "Delete" /\ op'.diag = "ok")
       => (remote[d.id] # None /\ remote'[d.id] = None /\ d'.id = EmptyId)]_vars
C10_Witness == Did("Delete") /\ op.diag = "ok" /\ d.id = EmptyId


\* C11: between operations the record's id is empty exactly when its
\* lifecycle state is Absent and non-empty exactly when it is Present.
C11_IdMatchesLifecycle ==
  /\ lifecycle \in {"Absent", "Present"}
  /\ (d.id = EmptyId) <=> (lifecycle = "Absent")

\* The step taken is an Update whose update request failed.
UpdateRequestFailed ==
  op'.name = "Update" /\ op'.err = "remote" /\ op'.calls = <<"update">>

\* C12: when the update request fails, Update returns the error, performs no
\* Read, and the record is the one held before the Update: its id and every
\* one of its fields are unchanged.
C12_UpdateFailureKeepsRecord ==
  [][UpdateRequestFailed => (op'.diag = "error" /\ d' = d)]_vars

NotUpdatable(obj) ==
  [id |-> obj.id, hostName |-> obj.hostName, name |-> obj.name,
   username |-> obj.username, password |-> obj.password,
   associatedIds |-> obj.associatedIds, dcid |-> obj.dcid,
   acceptSelfSigned |-> obj.acceptSelfSigned]

\* C14: an update request carries only description, regions and tags: a
\* successful Update leaves the hostname, username, password, associated
\* account ids, dcid, acceptSelfSignedCert and id of the remote object as they
\* were.
C14_UpdateLeavesOtherAttributes ==
  [][(op'.name = "Update" /\ op'.diag = "ok")
       => /\ remote[d.id] # None /\ remote'[d.id] # None
          /\ NotUpdatable(remote'[d.id]) = NotUpdatable(remote[d.id])]_vars
C14_Witness ==
  /\ Did("Update") /\ op.diag = "ok" /\ op.err = "none"
  /\ d.password = "v2" /\ d.accept_self_signed_cert
  /\ remote[d.id].password = "v1" /\ ~remote[d.id].acceptSelfSigned
  /\ remote[d.id].hostName = "v1" /\ remote[d.id].description = "v2"

\* ------------------------------------------- the normalizer taken on its own
\* The region-order normalizer applied to every declared order of up to
\* NormLen identifiers (repetitions included) and every remote link list of
\* up to NormLen links, one link per identifier as in a mapping; bad = the
\* first link is one that cannot be parsed. It is then applied once more to
\* the links of its own output.
NormLen == 3
NormRegions == {"r1", "r2", "r3", "r4"}
DeclaredOrders == SeqsUpTo(NormRegions, NormLen)
RemoteIdLists == {s \in SeqsUpTo(NormRegions, NormLen) : ~HasDup(s)}
LinksOf(ids, bad) ==
  [Links |-> [regions  |-> [i \in DOMAIN ids |->
                              IF bad /\ i = 1 THEN MalformedHref
                              ELSE Href(RegionPrefix, ids[i])],
              accounts |-> {}]]
NoResult == [err |-> FALSE, ids |-> <<>>]
NormInputs ==
  {[stage |-> "input", declaredOrder |-> o, remoteIds |-> s, bad |-> b,
    first |-> NoResult, second |-> NoResult] :
     o \in DeclaredOrders, s \in RemoteIdLists, b \in BOOLEAN}

NormInit ==
  /\ normalizer \in {n \in NormInputs : n.bad => n.remoteIds # <<>>}
  /\ d = EmptyData
  /\ remote = [i \in Ids |-> None]
  /\ nextId = 1
  /\ op = OpRecord("Init", "ok", "none", <<>>, NoConfig, EmptyId)
  /\ lifecycle = "Absent"
  /\ reads = 0

NormalizeOnce ==
  /\ normalizer.stage = "input"
  /\ normalizer' =
       [normalizer EXCEPT
          !.stage = "once",
          !.first = flattenAndNormalizeCloudAccountVsphereRegionIds(
                      normalizer.declaredOrder,
                      LinksOf(normalizer.remoteIds, normalizer.bad))]
  /\ UNCHANGED <<d, remote, nextId, op, lifecycle, reads>>

NormalizeAgain ==
  /\ normalizer.stage = "once"
  /\ ~normalizer.first.err
  /\ normalizer' =
       [normalizer EXCEPT
          !.stage = "twice",
          !.second = flattenAndNormalizeCloudAccountVsphereRegionIds(
                       normalizer.declaredOrder,
                       LinksOf(normalizer.first.ids, FALSE))]
  /\ UNCHANGED <<d, remote, nextId, op, lifecycle, reads>>

NormNext == NormalizeOnce \/ NormalizeAgain
SpecNorm == NormInit /\ [][NormNext]_vars

\* The normalizer has been applied to links that all parse.
Normalized == normalizer.stage # "input" /\ ~normalizer.bad
Count(s, x) == Cardinality({i \in DOMAIN s : s[i] = x})

\* C15: order invariance: for a declared order without repetition and remote
\* links that are any permutation of the same identifiers, the normalizer
\* returns exactly the declared order.
C15_OrderInvariance ==
  (/\ Normalized
   /\ ~HasDup(normalizer.declaredOrder)
   /\ Range(normalizer.remoteIds) = Range(normalizer.declaredOrder))
  => (~normalizer.first.err /\ normalizer.first.ids = normalizer.declaredOrder)
C15_Witness ==
  /\ Normalized
  /\ normalizer.declaredOrder = <<"r3", "r1", "r2">>
  /\ normalizer.remoteIds = <<"r1", "r2", "r3">>
  /\ normalizer.first.ids = <<"r3", "r1", "r2">>

\* C16: completeness: the normalizer's output holds the identifiers of the
\* remote links, each as often as the links do; the identifiers the declared
\* order does not name come after all those it names, in the order the
\* remote response gave them; declared identifiers the remote does not
\* return are not emitted.
C16_Completeness ==
  Normalized =>
    LET out == normalizer.first.ids
        ids == normalizer.remoteIds
        Declared(x) == x \in Range(normalizer.declaredOrder)
        Extra(x) == ~Declared(x)
    IN /\ ~normalizer.first.err
       /\ \A x \in NormRegions : Count(out, x) = Count(ids, x)
       /\ \A i, j \in DOMAIN out : (Extra(out[i]) /\ Declared(out[j])) => j < i
       /\ SelectSeq(out, Extra) = SelectSeq(ids, Extra)
       /\ \A x \in Range(normalizer.declaredOrder) \ Range(ids) :
            x \notin Range(out)
C16_Witness ==
  /\ Normalized
  /\ normalizer.declaredOrder = <<"r4", "r2">>
  /\ normalizer.remoteIds = <<"r3", "r2", "r1">>
  /\ normalizer.first.ids = <<"r2", "r3", "r1">>

\* C17: idempotence: the normalizer applied to its own output with the same
\* declared order returns that output unchanged.
C17_Idempotent ==
  normalizer.stage = "twice" =>
    (~normalizer.second.err /\ normalizer.second.ids = normalizer.first.ids)
C17_Witness ==
  /\ normalizer.stage = "twice"
  /\ normalizer.declaredOrder = <<"r2">>
  /\ normalizer.remoteIds = <<"r3", "r2", "r1">>
  /\ normalizer.second.ids = <<"r2", "r3", "r1">>

\* C18: whenever Create returns after its create request succeeded, the
\* record's id is the id the remote assigned: no path returns with the remote
\* object created (and still there) and the id empty.
C18_CreatedIdIsRecorded ==
  (Did("Create") /\ op.created # EmptyId /\ remote[op.created] # None)
    => d.id = op.created

\* C19: Read is idempotent: of two successful Reads in a row, with no change
\* of the remote object between them, the second leaves the record as the
\* first left it.
C19_ReadIdempotent ==
  [][(reads >= 1 /\ Refreshed(op) /\ Refreshed(op')) => d' = d]_vars
C19_Witness ==
  /\ reads = 2 /\ Refreshed(op)
  /\ d.id # EmptyId /\ d.region_ids = {"r1", "r2"}

\* The record has an id and the remote object with that id is gone.
RemoteGone == d.id # EmptyId /\ remote[d.id] = None

\* C20: Delete does not take not-found for success: once the remote object of
\* a record has been deleted out of band, every Delete returns an error and
\* leaves the id set, and the id is cleared only by a Read whose get request
\* is answered not-found.
C20_DeleteOfMissingFails ==
  [][RemoteGone =>
       /\ op'.name = "Delete" => (op'.diag = "error" /\ d'.id = d.id)
       /\ d'.id = EmptyId => (op'.name = "Read" /\ op'.err = "notfound")]_vars
C20_Witness ==
  /\ Did("Delete") /\ op.diag = "error"
  /\ RemoteGone /\ lifecycle = "Present"

====
